---- MODULE Spec2Model ----
(***************************************************************************)
(* A model of parse.py: the Wyze segment fetcher.  One run of main() is a  *)
(* sequential pipeline: parse_args, setup_logger, enumerate_video_segments *)
(* (a loop over the recursive walk), the manifest writer, the ffmpeg child *)
(* process and the final os.unlink.  Strings are sequences of one-         *)
(* character strings, paths are sequences of such components, and          *)
(* datetimes are the tuples <<year, month, day, hour, minute, second>>     *)
(* that Python compares field by field.                                    *)
(***************************************************************************)
EXTENDS Integers, Sequences, FiniteSets, TLC

VARIABLES
    pc,                 \* position of main()
    error,              \* the exception that ended the run, or "none"
    tree,               \* the files under the source root that match *.mp4
    args,               \* the parsed argparse.Namespace
    level,              \* threshold of the root logger
    todo,               \* what the rglob generator has not yielded yet
    matching_segments,  \* the local set of enumerate_video_segments
    segments,           \* main()'s segments, once enumerate returned
    fhOpen,             \* the NamedTemporaryFile handle is open
    manifestExists,     \* the temporary file exists on disk
    manifest,           \* lines written to the temporary file
    queue,              \* what is left of the loop over sorted(segments)
    child,              \* the ffmpeg child: "none", "running", "exited"
    result,             \* the CompletedProcess of subprocess.run
    log,                \* records the root logger emitted
    events              \* stages entered so far, in order

vars == <<pc, error, tree, args, level, todo, matching_segments, segments,
          fhOpen, manifestExists, manifest, queue, child, result, log, events>>

----------------------------------------------------------------------------
(* Bounds of the model. *)

MaxFiles == 4

MaxVerbosity == 3

----------------------------------------------------------------------------
(* Characters and strings. *)

Digits == <<"0", "1", "2", "3", "4", "5", "6", "7", "8", "9">>

IsDigit(c) == \E i \in 1..Len(Digits) : Digits[i] = c

DigitVal(c) == (CHOOSE i \in 1..Len(Digits) : Digits[i] = c) - 1

\* The characters of the model in ascending code point order; Python
\* compares str values code point by code point.
CodeOrder == <<" ", "'", "+", "-", ".", "/",
               "0", "1", "2", "3", "4", "5", "6", "7", "8", "9",
               "_", "a", "c", "m", "p", "x">>

Ord(c) == CHOOSE i \in 1..Len(CodeOrder) : CodeOrder[i] = c

\* str.__lt__
StrLT(a, b) ==
    \E k \in 1..(Len(a) + 1) :
        /\ k <= Len(b)
        /\ \A j \in 1..(k - 1) : a[j] = b[j]
        /\ (k = Len(a) + 1 \/ Ord(a[k]) < Ord(b[k]))

\* PurePath.__lt__: the tuples of parts are compared, part by part.
PathLT(p, q) ==
    \E k \in 1..(Len(p) + 1) :
        /\ k <= Len(q)
        /\ \A j \in 1..(k - 1) : p[j] = q[j]
        /\ (k = Len(p) + 1 \/ StrLT(p[k], q[k]))

RECURSIVE DigitsValue(_)
DigitsValue(s) ==
    IF s = <<>> THEN 0
    ELSE DigitsValue(SubSeq(s, 1, Len(s) - 1)) * 10 + DigitVal(s[Len(s)])

RECURSIVE Strip(_)
\* str.strip() for the one whitespace character of the model
Strip(s) ==
    IF s = <<>> THEN s
    ELSE IF s[1] = " " THEN Strip(Tail(s))
    ELSE IF s[Len(s)] = " " THEN Strip(SubSeq(s, 1, Len(s) - 1))
    ELSE s

RECURSIVE DropUnderscores(_)
DropUnderscores(s) ==
    IF s = <<>> THEN s
    ELSE IF s[1] = "_" THEN DropUnderscores(Tail(s))
    ELSE <<s[1]>> \o DropUnderscores(Tail(s))

Failure == [ok |-> FALSE, val |-> 0]

Success(v) == [ok |-> TRUE, val |-> v]

\* int(str): surrounding whitespace, one optional sign, decimal digits with
\* single underscores between them.
PyInt(s) ==
    LET t == Strip(s)
        signed == t # <<>> /\ t[1] \in {"+", "-"}
        body == IF signed THEN Tail(t) ELSE t
        wellFormed ==
            /\ body # <<>>
            /\ IsDigit(body[1])
            /\ IsDigit(body[Len(body)])
            /\ \A i \in 1..Len(body) : IsDigit(body[i]) \/ body[i] = "_"
            /\ \A i \in 1..(Len(body) - 1) : ~(body[i] = "_" /\ body[i + 1] = "_")
        magnitude == DigitsValue(DropUnderscores(body))
    IN  IF ~wellFormed THEN Failure
        ELSE IF signed /\ t[1] = "-" THEN Success(0 - magnitude)
        ELSE Success(magnitude)

\* parse_digits of the datetime module: exactly n decimal digits from pos.
ParseDigits(s, pos, n) ==
    IF pos + n - 1 <= Len(s) /\ \A i \in pos..(pos + n - 1) : IsDigit(s[i])
    THEN Success(DigitsValue(SubSeq(s, pos, pos + n - 1)))
    ELSE Failure

IsLeap(y) == y % 4 = 0 /\ (y % 100 # 0 \/ y % 400 = 0)

DaysInMonth(y, m) ==
    IF m = 2 THEN (IF IsLeap(y) THEN 29 ELSE 28)
    ELSE IF m \in {4, 6, 9, 11} THEN 30
    ELSE 31

\* date.fromisoformat on a string without the week designator: YYYY-MM-DD
\* or YYYYMMDD, then the range checks of the date constructor.
DateFromIsoFormat(s) ==
    LET year == ParseDigits(s, 1, 4)
        sep == Len(s) >= 5 /\ s[5] = "-"
        mpos == IF sep THEN 6 ELSE 5
        month == ParseDigits(s, mpos, 2)
        dpos == IF sep THEN mpos + 3 ELSE mpos + 2
        day == ParseDigits(s, dpos, 2)
    IN  IF Len(s) \notin {7, 8, 10} THEN Failure
        ELSE IF ~year.ok \/ ~month.ok THEN Failure
        ELSE IF sep /\ ~(Len(s) >= mpos + 2 /\ s[mpos + 2] = "-") THEN Failure
        ELSE IF ~day.ok THEN Failure
        ELSE IF year.val < 1 \/ month.val < 1 \/ month.val > 12 THEN Failure
        ELSE IF day.val < 1 \/ day.val > DaysInMonth(year.val, month.val) THEN Failure
        ELSE Success(<<year.val, month.val, day.val>>)

TimeOfUnchecked(hour, minute) == Success(<<hour, minute, 0>>)

\* datetime.time(hour, minute, 0)
TimeOf(hour, minute) ==
    IF hour < 0 \/ hour > 23 \/ minute < 0 \/ minute > 59 THEN Failure
    ELSE Success(<<hour, minute, 0>>)

\* PurePath.stem: the final component without its last suffix.
Stem(name) ==
    LET dots == {i \in 1..Len(name) : name[i] = "."}
        last == IF dots = {} THEN 0 ELSE CHOOSE i \in dots : \A j \in dots : j <= i
    IN  IF 1 < last /\ last < Len(name) THEN SubSeq(name, 1, last - 1) ELSE name

\* The timestamp enumerate_video_segments decodes from a path, or the
\* exception the decoding raises.
SegmentDate(parts) ==
    IF Len(parts) < 3 THEN [ok |-> FALSE, exc |-> "IndexError", val |-> <<>>]
    ELSE
        LET n == Len(parts)
            date == DateFromIsoFormat(parts[n - 2])
            hour == PyInt(parts[n - 1])
            minute == PyInt(Stem(parts[n]))
            time == TimeOf(hour.val, minute.val)
        IN  IF date.ok /\ hour.ok /\ minute.ok /\ time.ok
            THEN [ok |-> TRUE, exc |-> "none", val |-> date.val \o time.val]
            ELSE [ok |-> FALSE, exc |-> "ValueError", val |-> <<>>]

\* datetime.__le__: field by field, most significant first.
DatetimeLE(a, b) ==
    \/ a = b
    \/ \E k \in 1..Len(a) :
        /\ \A j \in 1..(k - 1) : a[j] = b[j]
        /\ a[k] < b[k]

InWindowLowerOnly(begin, end, t) == DatetimeLE(begin, t)

InWindowExclusive(begin, end, t) ==
    DatetimeLE(begin, t) /\ DatetimeLE(t, end) /\ t # begin /\ t # end

\* begin <= segment_date <= end
InWindow(begin, end, t) == DatetimeLE(begin, t) /\ DatetimeLE(t, end)

RECURSIVE Sorted(_)
\* sorted(segments)
Sorted(S) ==
    IF S = {} THEN <<>>
    ELSE LET first == CHOOSE p \in S : \A q \in S \ {p} : PathLT(p, q)
         IN  <<first>> \o Sorted(S \ {first})

\* f"file '{line}'\n"
ManifestLine(path) == <<"file '", path, "'\n">>

----------------------------------------------------------------------------
(* The source directory.  Well-formed segments are named by the camera's   *)
(* convention <root>/**/<YYYY-MM-DD>/<HH>/<MM>.mp4; t is the time the      *)
(* camera recorded the segment at and inode the file the path resolves to. *)
(* The program reads neither: it sees parts only.                          *)

Root == << <<"/">>, <<"m", "m", "c">> >>

Cam == << <<"c", "a", "m">> >>

Ext == <<".", "m", "p", "4">>

Pad2(n) == <<Digits[(n \div 10) + 1], Digits[(n % 10) + 1]>>

Pad4(n) == Pad2(n \div 100) \o Pad2(n % 100)

FormatDate(y, m, d) == Pad4(y) \o <<"-">> \o Pad2(m) \o <<"-">> \o Pad2(d)

Segment(dirs, y, m, d, h, mi, inode) ==
    [parts |-> Root \o dirs \o <<FormatDate(y, m, d), Pad2(h), Pad2(mi) \o Ext>>,
     inode |-> inode, wf |-> TRUE, t |-> <<y, m, d, h, mi, 0>>]

Stray(date, hour, name, inode) ==
    [parts |-> Root \o <<date, hour, name>>,
     inode |-> inode, wf |-> FALSE, t |-> <<>>]

Universe ==
    { Segment(<<>>, 2023, 12, 31, 23, 59, 1),
      Segment(<<>>, 2024, 1, 1, 13, 4, 2),
      Segment(<<>>, 2024, 1, 1, 13, 5, 3),
      Segment(<<>>, 2024, 1, 1, 13, 10, 4),
      Segment(<<>>, 2024, 1, 1, 13, 11, 5),
      \* the same file as 13/05.mp4, mounted a second time under cam/
      Segment(Cam, 2024, 1, 1, 13, 5, 3),
      \* not a calendar date
      Stray(FormatDate(2024, 2, 30), Pad2(13), Pad2(5) \o Ext, 6),
      \* not an hour
      Stray(FormatDate(2024, 1, 1), Pad2(24), Pad2(5) \o Ext, 7),
      \* not an integer
      Stray(FormatDate(2024, 1, 1), Pad2(13), <<"x", "x">> \o Ext, 8) }

Trees == {T \in SUBSET Universe : Cardinality(T) <= MaxFiles}

Begins == { <<2024, 1, 1, 13, 5, 0>>, <<2024, 1, 1, 13, 5, 30>>,
            <<2024, 1, 1, 13, 11, 0>> }

Ends == { <<2024, 1, 1, 13, 10, 0>>, <<2024, 1, 1, 13, 4, 0>> }

\* What the ffmpeg child can return: success, or a failure with output.
Results == { [returncode |-> 0, stderr |-> "", stdout |-> ""],
             [returncode |-> 1, stderr |-> "err", stdout |-> "out"] }

----------------------------------------------------------------------------
(* Logging. *)

DEBUG == 10

INFO == 20

WARNING == 30

ERROR == 40

Max(a, b) == IF a >= b THEN a ELSE b

\* level = max([logging.WARNING - verbosity*10, 0])
LoggerLevel(verbosity) == Max(WARNING - verbosity * 10, 0)

\* Logger.log: a record is emitted when its level reaches the threshold.
Emit(l, lvl, msg, arg) ==
    IF lvl >= level THEN Append(l, [level |-> lvl, msg |-> msg, arg |-> arg]) ELSE l

----------------------------------------------------------------------------
(* main() *)

NoArgs == [verbose |-> 0, begin |-> <<>>, end |-> <<>>]

NoResult == [returncode |-> 0, stderr |-> "", stdout |-> ""]

Init ==
    /\ pc = "start"
    /\ error = "none"
    /\ tree \in Trees
    /\ args = NoArgs
    /\ level = WARNING
    /\ todo = {}
    /\ matching_segments = {}
    /\ segments = {}
    /\ fhOpen = FALSE
    /\ manifestExists = FALSE
    /\ manifest = <<>>
    /\ queue = <<>>
    /\ child = "none"
    /\ result = NoResult
    /\ log = <<>>
    /\ events = <<>>

PropagateSwallowed(exc) ==
    /\ pc' = "merge"
    /\ error' = exc

\* The shape of the state: the locals of main() and of
\* enumerate_video_segments, the temporary file and the child process.
TypeOK ==
    /\ pc \in {"start", "setup_logger", "enumerate", "enum_loop", "tempfile",
               "write_loop", "merge", "wait", "check", "unlink", "done", "aborted"}
    /\ error \in {"none", "SystemExit", "ValueError", "IndexError", "OSError",
                  "FileNotFoundError"}
    /\ tree \in Trees
    /\ args = NoArgs \/ (args.verbose \in 0..MaxVerbosity /\ args.begin \in Begins
                          /\ args.end \in Ends)
    /\ level \in 0..WARNING
    /\ todo \subseteq tree
    /\ matching_segments \subseteq {e.parts : e \in tree}
    /\ segments \subseteq matching_segments
    /\ fhOpen \in BOOLEAN
    /\ manifestExists \in BOOLEAN
    /\ Len(manifest) + Len(queue) <= Cardinality(segments)
    /\ child \in {"none", "running", "exited"}
    /\ result \in Results \cup {NoResult}
    /\ \A i \in 1..Len(log) : log[i].level \in {DEBUG, INFO, ERROR}
    /\ Len(events) <= Cardinality(tree) + Len(log) + 5

\* An exception nothing catches: it leaves main() and ends the process.
Propagate(exc) ==
    /\ pc' = "aborted"
    /\ error' = exc

\* args = parse_args(): argparse exits when a directory or a timestamp is
\* not valid.
ParseArgs ==
    /\ pc = "start"
    /\ events' = Append(events, "resolve")
    /\ \E ok \in BOOLEAN, v \in 0..MaxVerbosity, b \in Begins, e \in Ends :
          IF ok
          THEN /\ args' = [verbose |-> v, begin |-> b, end |-> e]
               /\ pc' = "setup_logger"
               /\ error' = error
          ELSE /\ Propagate("SystemExit")
               /\ args' = args
    /\ UNCHANGED <<tree, level, todo, matching_segments, segments, fhOpen,
                   manifestExists, manifest, queue, child, result, log>>

\* setup_logger(args.verbose)
SetupLogger ==
    /\ pc = "setup_logger"
    /\ level' = LoggerLevel(args.verbose)
    /\ pc' = "enumerate"
    /\ UNCHANGED <<error, tree, args, todo, matching_segments, segments, fhOpen,
                   manifestExists, manifest, queue, child, result, log, events>>

\* all_segments = path.rglob('*.mp4'); matching_segments = set()
EnumBegin ==
    /\ pc = "enumerate"
    /\ todo' = tree
    /\ matching_segments' = {}
    /\ events' = Append(events, "enumerate")
    /\ pc' = "enum_loop"
    /\ UNCHANGED <<error, tree, args, level, segments, fhOpen, manifestExists,
                   manifest, queue, child, result, log>>

\* One iteration of the loop, on whichever file the walk yields next.
EnumStep ==
    /\ pc = "enum_loop"
    /\ \E e \in todo :
          LET segment_date == SegmentDate(e.parts)
          IN  IF ~segment_date.ok
              THEN /\ Propagate(segment_date.exc)
                   /\ UNCHANGED <<todo, matching_segments, log>>
              ELSE /\ todo' = todo \ {e}
                   /\ UNCHANGED <<pc, error>>
                   /\ IF InWindow(args.begin, args.end, segment_date.val)
                      THEN /\ log' = Emit(log, DEBUG, "Adding", e.parts)
                           /\ matching_segments' = matching_segments \cup {e.parts}
                      ELSE UNCHANGED <<matching_segments, log>>
    /\ UNCHANGED <<tree, args, level, segments, fhOpen, manifestExists,
                   manifest, queue, child, result, events>>

\* The walk is exhausted: log the count and return the set.
EnumReturn ==
    /\ pc = "enum_loop"
    /\ todo = {}
    /\ log' = Emit(log, INFO, "Found", Cardinality(matching_segments))
    /\ segments' = matching_segments
    /\ pc' = "tempfile"
    /\ UNCHANGED <<error, tree, args, level, todo, matching_segments, fhOpen,
                   manifestExists, manifest, queue, child, result, events>>

\* fh = tempfile.NamedTemporaryFile(delete=False), then the loop over
\* sorted(segments) is set up.
CreateManifest ==
    /\ pc = "tempfile"
    /\ \E ok \in BOOLEAN :
          IF ok
          THEN /\ manifestExists' = TRUE
               /\ fhOpen' = TRUE
               /\ manifest' = <<>>
               /\ queue' = Sorted(segments)
               /\ events' = Append(events, "write")
               /\ pc' = "write_loop"
               /\ error' = error
          ELSE /\ Propagate("OSError")
               /\ UNCHANGED <<manifestExists, fhOpen, manifest, queue, events>>
    /\ UNCHANGED <<tree, args, level, todo, matching_segments, segments,
                   child, result, log>>

\* fh.write(f"file '{line}'\n".encode())
WriteLine ==
    /\ pc = "write_loop"
    /\ queue # <<>>
    /\ \E ok \in BOOLEAN :
          IF ok
          THEN /\ manifest' = Append(manifest, ManifestLine(Head(queue)))
               /\ queue' = Tail(queue)
               /\ UNCHANGED <<pc, error>>
          ELSE /\ Propagate("OSError")
               /\ UNCHANGED <<manifest, queue>>
    /\ UNCHANGED <<tree, args, level, todo, matching_segments, segments, fhOpen,
                   manifestExists, child, result, log, events>>

CloseManifestLeftOpen ==
    /\ pc = "write_loop"
    /\ queue = <<>>
    /\ pc' = "merge"
    /\ UNCHANGED <<error, fhOpen, tree, args, level, todo, matching_segments,
                   segments, manifestExists, manifest, queue, child, result,
                   log, events>>

\* fh.close(): the buffered lines are flushed, which can fail.
CloseManifest ==
    /\ pc = "write_loop"
    /\ queue = <<>>
    /\ fhOpen' = FALSE
    /\ \E ok \in BOOLEAN :
          IF ok
          THEN /\ pc' = "merge"
               /\ error' = error
          ELSE Propagate("OSError")
    /\ UNCHANGED <<tree, args, level, todo, matching_segments, segments,
                   manifestExists, manifest, queue, child, result, log, events>>

\* logging.info("Beginning file merge."); subprocess.run([...]) starts the
\* child, or raises when the executable cannot be started.
RunFfmpeg ==
    /\ pc = "merge"
    /\ log' = Emit(log, INFO, "Beginning file merge.", <<>>)
    /\ events' = Append(events, "invoke")
    /\ \E started \in BOOLEAN :
          IF started
          THEN /\ child' = "running"
               /\ pc' = "wait"
               /\ error' = error
          ELSE /\ Propagate("FileNotFoundError")
               /\ child' = child
    /\ UNCHANGED <<tree, args, level, todo, matching_segments, segments, fhOpen,
                   manifestExists, manifest, queue, result>>

\* subprocess.run returns once the child has exited.
ChildExit ==
    /\ pc = "wait"
    /\ \E r \in Results : result' = r
    /\ child' = "exited"
    /\ pc' = "check"
    /\ UNCHANGED <<error, tree, args, level, todo, matching_segments, segments,
                   fhOpen, manifestExists, manifest, queue, log, events>>

FailedNever(r) == FALSE

\* result.returncode != 0
Failed(r) == r.returncode # 0

\* if result.returncode != 0: logging.error(...); logging.info("Complete")
CheckResult ==
    /\ pc = "check"
    /\ log' = Emit(IF Failed(result)
                   THEN Emit(log, ERROR, "Failed to run ffmpeg",
                             <<result.stderr, result.stdout>>)
                   ELSE log,
                   INFO, "Complete", <<>>)
    /\ pc' = "unlink"
    /\ UNCHANGED <<error, tree, args, level, todo, matching_segments, segments,
                   fhOpen, manifestExists, manifest, queue, child, result, events>>

\* os.unlink(fh.name)
Unlink ==
    /\ pc = "unlink"
    /\ manifestExists' = FALSE
    /\ events' = Append(events, "delete")
    /\ pc' = "done"
    /\ UNCHANGED <<error, tree, args, level, todo, matching_segments, segments,
                   fhOpen, manifest, queue, child, result, log>>

Next ==
    \/ ParseArgs
    \/ SetupLogger
    \/ EnumBegin
    \/ EnumStep
    \/ EnumReturn
    \/ CreateManifest
    \/ WriteLine
    \/ CloseManifest
    \/ RunFfmpeg
    \/ ChildExit
    \/ CheckResult
    \/ Unlink

Spec == Init /\ [][Next]_vars

----------------------------------------------------------------------------
(* Vocabulary of the properties. *)

Entered(stage) == \E i \in 1..Len(events) : events[i] = stage

Count(stage) == Cardinality({i \in 1..Len(events) : events[i] = stage})

\* enumerate_video_segments has returned to main()
Returned ==
    \/ pc \in {"tempfile", "write_loop", "merge", "wait", "check", "unlink", "done"}
    \/ pc = "aborted" /\ error \in {"OSError", "FileNotFoundError"}

WellFormedTree == \A e \in tree : e.wf

\* Seconds on a scale that puts timestamps in chronological order.
Chrono(t) ==
    (((((t[1] - 2000) * 12 + t[2]) * 31 + t[3]) * 24 + t[4]) * 60 + t[5]) * 60 + t[6]

BeginAfterEnd ==
    IF args = NoArgs THEN FALSE ELSE Chrono(args.begin) > Chrono(args.end)

ErrorRecords == {i \in 1..Len(log) : log[i].level = ERROR}

StageOrder == <<"resolve", "enumerate", "write", "invoke", "delete">>

----------------------------------------------------------------------------
(* Properties. *)

\* C1: when a run in which the temporary manifest was created has ended,
\* normally or by an exception, the manifest no longer exists.
C1_ManifestRemovedAtEnd ==
    (pc \in {"done", "aborted"} /\ Entered("write")) => ~manifestExists

\* C2: over a tree of well-formed segment paths, enumerate_video_segments
\* returns exactly the paths of the segments recorded at a time t with
\* begin <= t <= end, both bounds included.
C2_EnumerateExactWindow ==
    (Returned /\ WellFormedTree) =>
        segments = { e.parts : e \in { f \in tree :
                        /\ Chrono(args.begin) <= Chrono(f.t)
                        /\ Chrono(f.t) <= Chrono(args.end) } }

\* A run that returned the segments at begin and at end and left out the
\* ones a minute before begin and a minute after end.
C2_Witness ==
    /\ Returned
    /\ WellFormedTree
    /\ \E e \in tree : e.t = args.begin /\ e.parts \in segments
    /\ \E e \in tree : e.t = args.end /\ e.parts \in segments
    /\ \E e \in tree : Chrono(e.t) = Chrono(args.begin) - 60 /\ e.parts \notin segments
    /\ \E e \in tree : Chrono(e.t) = Chrono(args.end) + 60 /\ e.parts \notin segments

\* C3: consecutive lines of the manifest are in non-decreasing order of the
\* timestamp decoded from their paths.
C3_ManifestChronological ==
    \A i \in 1..(Len(manifest) - 1) :
        Chrono(SegmentDate(manifest[i][2]).val)
            <= Chrono(SegmentDate(manifest[i + 1][2]).val)

\* C4: once the child has exited, no exception is raised; a non-zero exit
\* status leaves exactly one error record, holding the captured stderr and
\* stdout, a zero status leaves none, and the run ends with the manifest
\* deleted.
C4_MergeFailureLoggedNotRaised ==
    /\ child = "exited" => (error = "none" /\ pc \in {"check", "unlink", "done"})
    /\ pc = "check" => ErrorRecords = {}
    /\ pc \in {"unlink", "done"} =>
          IF result.returncode # 0
          THEN /\ Cardinality(ErrorRecords) = 1
               /\ \A i \in ErrorRecords :
                     log[i].arg = <<result.stderr, result.stdout>>
          ELSE ErrorRecords = {}
    /\ pc = "done" => ~manifestExists

\* A run that ended normally after the child failed.
C4_Witness ==
    /\ pc = "done"
    /\ result.returncode # 0
    /\ Cardinality(ErrorRecords) = 1
    /\ ~manifestExists

\* C5: with a malformed path among the matched files, the run never gets
\* past the enumeration: it ends by the decoding error, no segment set is
\* returned, no manifest is created and ffmpeg is not invoked.
C5_MalformedPathAborts ==
    (\E e \in tree : ~e.wf) =>
        /\ pc \in {"start", "setup_logger", "enumerate", "enum_loop", "aborted"}
        /\ pc = "enum_loop" => \E e \in todo : ~e.wf
        /\ pc = "aborted" => error \in {"SystemExit", "ValueError"}
        /\ segments = {}
        /\ ~Entered("write")
        /\ ~manifestExists
        /\ ~Entered("invoke")
        /\ child = "none"

\* A run aborted by a malformed path after well-formed segments were admitted.
C5_Witness ==
    /\ pc = "aborted"
    /\ error = "ValueError"
    /\ Cardinality(matching_segments) >= 2

\* C6: a failure to create, write or close the temporary manifest ends the
\* run, and the ffmpeg child is not launched in that run.
C6_ManifestIOFailureAborts ==
    error = "OSError" =>
        /\ pc = "aborted"
        /\ ~Entered("invoke")
        /\ child = "none"

\* A run aborted by a failed write after the manifest was created and a line
\* was written.
C6_Witness ==
    /\ pc = "aborted"
    /\ error = "OSError"
    /\ manifestExists
    /\ manifest # <<>>
    /\ queue # <<>>

\* C7: a file reachable by two paths is in the selected set at most once.
C7_ResolvedFileOnce ==
    \A e, f \in tree :
        (e.parts \in matching_segments /\ f.parts \in matching_segments
            /\ e.inode = f.inode) => e = f

\* C8: the logging threshold is WARNING lowered by one level for each -v,
\* and never below DEBUG.
C8_LevelFlooredAtDebug ==
    (pc \notin {"start", "setup_logger"} /\ args # NoArgs) =>
        level = Max(WARNING - args.verbose * (WARNING - INFO), DEBUG)

\* C9: with begin > end nothing is selected, which is no error; the
\* manifest is created empty, ffmpeg is invoked once with it and the
\* manifest is then deleted.
C9_EmptyWindowStillMerges ==
    BeginAfterEnd =>
        /\ matching_segments = {}
        /\ segments = {}
        /\ manifest = <<>>
        /\ queue = <<>>
        /\ WellFormedTree => error \notin {"ValueError", "IndexError"}
        /\ child # "none" => (Count("write") = 1 /\ Count("invoke") = 1)
        /\ child = "running" => manifestExists
        /\ pc = "done" =>
              /\ child = "exited"
              /\ Count("delete") = 1
              /\ ~manifestExists
              /\ error = "none"

\* A complete run over well-formed segments with begin > end.
C9_Witness ==
    /\ BeginAfterEnd
    /\ pc = "done"
    /\ tree # {}
    /\ WellFormedTree
    /\ child = "exited"

\* C10: the stages are entered at most once each and in the fixed order;
\* ffmpeg is invoked only after every line is written and the file closed,
\* the manifest exists while the child runs, and it is deleted only after
\* the child has exited.
C10_StagesOnceInOrder ==
    /\ Len(events) <= Len(StageOrder)
    /\ \A i \in 1..Len(events) : events[i] = StageOrder[i]
    /\ Entered("invoke") =>
          /\ ~fhOpen
          /\ queue = <<>>
          /\ Len(manifest) = Cardinality(segments)
    /\ child = "running" => manifestExists
    /\ Entered("delete") => child = "exited"
    /\ (Entered("write") /\ ~manifestExists) => Entered("delete")

\* A run that went through all five stages with a manifest of several lines.
C10_Witness ==
    /\ pc = "done"
    /\ events = StageOrder
    /\ Len(manifest) >= 2

====
